---- MODULE Spec2Model ----
(***************************************************************************)
(* Model of the AutoQuote workflow orchestrator: the session state         *)
(* machine (lib/orchestrator/workflow.ts), the webhook-driven completion   *)
(* check (app/api/vapi/webhook/route.ts, lib/orchestrator/state-machine),  *)
(* the two DynamoDB repositories and the DEMO_MODE destination gate        *)
(* (lib/demo/enforcement).  One session is modelled; every store operation *)
(* (one ddb.send) is one atomic step, so that handlers and the workflow    *)
(* interleave exactly at their awaits.  Spec is the workflow with the      *)
(* webhook; the other specifications add a second start, initiateCallsTool,*)
(* the read routes, events without correlation or with any signature       *)
(* header, run the workflow on its own under every configuration, or apply *)
(* enforceDemoMode and VapiClient.createCall on their own.                 *)
(***************************************************************************)
EXTENDS Integers, Sequences, FiniteSets, Bags, TLC

\* ---------------------------------------------------------------- bounds
\* Total number of webhook deliveries in one behaviour.
MaxDeliveries == 2
\* Number of webhook requests that can be in flight at the same time.
NumHandlers == 2

\* ------------------------------------------------------------ input data
\* DEMO_TO_NUMBERS after split(",") and trim().
DemoNumbers == <<"X", "Y">>

\* The shops stored with the session at creation: A has a real number that
\* is not in the allow-list, B's number is in the allow-list.
ShopList == << [id |-> "A", phone |-> "R1"], [id |-> "B", phone |-> "X"] >>

ShopIds == {ShopList[k].id : k \in 1..Len(ShopList)}

\* The workflow runs (one start request each).
Runs == {1}

\* The invocations that can exist for the session: the run of Runs, and a
\* second one (a second start request, or an invocation of initiateCallsTool).
Starts == {1, 2}

\* The invocation that is initiateCallsTool where the tool is modelled.
ToolRuns == {2}

EventTypes == {"call.started", "call.ended", "call.failed"}
TerminalEvents == {"call.ended", "call.failed"}

\* A value that stands for a field that is not set (JavaScript undefined).
Undef == "undefined"

\* The result of enforceDemoMode when it throws DemoModeViolationError.
Blocked == "DemoModeViolationError"

VARIABLES
    cfg,        \* env: DEMO_MODE, SCOPE_CALLS_TO_DEMO_LIST, DEMO_NUMBER_STRATEGY, ALLOW_OUTBOUND_CALLS
    session,    \* the Sessions table item
    calls,      \* the Calls table: shop id -> item (status "ABSENT" when there is none)
    wf,         \* run -> position and locals of runQuoteSessionWorkflow
    hd,         \* bag of the webhook POSTs in flight: position and locals of each
    requests,   \* call-creation requests that reached the voice platform
    placed,     \* calls the voice platform accepted: [run, shop]
    delivered,  \* <<shop, event type>> -> number of deliveries so far
    synthCount, \* number of invocations of generateFinalReport
    early,      \* history: an event was delivered before dispatch had finished
    dup,        \* history: the handler of the second delivery of a call.ended, with the stored state left by the first
    gateIn,     \* input of the last stand-alone application of enforceDemoMode
    gateOut,    \* its result
    resp,       \* the last response of a route that answers in one step, with what it was asked
    uncorrelated, \* number of webhook POSTs received whose metadata lacks session_id or shop_id
    forged,     \* number of webhook POSTs received with an x-vapi-signature header that is not the HMAC of the body
    cb,         \* the image-description task and the POST /api/webhooks/image-to-prompt that reports it
    stray       \* the call items stored under keys that are no shop of the session, and how many events did it

vars == <<cfg, session, calls, wf, hd, requests, placed, delivered,
          synthCount, early, dup, gateIn, gateOut, resp, uncorrelated, forged, cb, stray>>

\* ------------------------------------------------------------------ gate
InAllowList(n) == \E k \in 1..Len(DemoNumbers) : DemoNumbers[k] = n

\* A gate that forgets to substitute when strict scoping is off.
enforceDemoModeNoSubstitution(c, n) ==
    IF ~c.demoMode THEN {n}
    ELSE IF InAllowList(n) THEN {n}
    ELSE IF c.scope THEN {Blocked}
    ELSE {n}

\* A gate that substitutes even under strict scoping.
enforceDemoModeNoBlock(c, n) ==
    IF ~c.demoMode THEN {n}
    ELSE IF InAllowList(n) THEN {n}
    ELSE IF c.strategy = "round-robin"
         THEN {DemoNumbers[k] : k \in 1..Len(DemoNumbers)}
         ELSE {DemoNumbers[1]}

\* A gate whose strategy "first" takes the last entry of the list.
enforceDemoModeLast(c, n) ==
    IF ~c.demoMode THEN {n}
    ELSE IF InAllowList(n) THEN {n}
    ELSE IF c.scope THEN {Blocked}
    ELSE IF c.strategy = "round-robin"
         THEN {DemoNumbers[k] : k \in 1..Len(DemoNumbers)}
         ELSE {DemoNumbers[Len(DemoNumbers)]}

\* enforceDemoMode(originalNumber): the set of results it can produce
\* (Math.random makes round-robin a choice); Blocked stands for the throw.
enforceDemoMode(c, n) ==
    IF ~c.demoMode THEN {n}
    ELSE IF InAllowList(n) THEN {n}
    ELSE IF c.scope THEN {Blocked}
    ELSE IF c.strategy = "round-robin"
         THEN {DemoNumbers[k] : k \in 1..Len(DemoNumbers)}
         ELSE {DemoNumbers[1]}

\* A switch that is always on.
areCallsAllowedAlways(c) == TRUE

\* areCallsAllowed(): env.ALLOW_OUTBOUND_CALLS.
areCallsAllowed(c) == c.allowCalls

\* ---------------------------------------------------- assistant config
\* VAPI_CONFIG.
VOICE_PROVIDER == "11labs"
MODEL_PROVIDER == "anthropic"
MODEL_ID == "claude-opus-4-5-20251101"
THINKING_TYPE == "enabled"

\* env.CLAUDE_THINKING_BUDGET_TOKENS at its envSchema default.
CLAUDE_THINKING_BUDGET_TOKENS == 10000

\* The fields of a VapiAssistantConfig that validateAssistantConfig reads:
\* voice.provider, model.provider, model.model, model.thinking?.type (Undef
\* when there is no thinking object), and model.thinking.budgetTokens with
\* whether typeof gives "number" for it.
AssistantConfigs ==
    [voice : {VOICE_PROVIDER, "azure"},
     provider : {MODEL_PROVIDER, "openai"},
     model : {MODEL_ID, "claude-sonnet-4-5"},
     thinking : {THINKING_TYPE, Undef},
     budgetIsNumber : BOOLEAN,
     budgetTokens : {-1, 0, CLAUDE_THINKING_BUDGET_TOKENS}]

\* buildAssistantConfig(session, webhookUrl), the validated fields.
buildAssistantConfig ==
    [voice |-> VOICE_PROVIDER, provider |-> MODEL_PROVIDER, model |-> MODEL_ID,
     thinking |-> THINKING_TYPE, budgetIsNumber |-> TRUE,
     budgetTokens |-> CLAUDE_THINKING_BUDGET_TOKENS]

\* A validation that does not look at budgetTokens.
validateAssistantConfigNoBudget(config) ==
    IF config.voice # VOICE_PROVIDER
    THEN "SPEC VIOLATION: Voice provider must be \"11labs\""
    ELSE IF config.provider # MODEL_PROVIDER
    THEN "SPEC VIOLATION: Model provider must be \"anthropic\""
    ELSE IF config.model # MODEL_ID
    THEN "SPEC VIOLATION: Model must be \"claude-opus-4-5-20251101\""
    ELSE IF config.thinking # THINKING_TYPE
    THEN "SPEC VIOLATION: Thinking must be enabled for Claude Opus 4.5"
    ELSE Undef

\* validateAssistantConfig(config): Undef when it returns, else the message
\* of the SpecViolationError it throws (up to the received value).
validateAssistantConfig(config) ==
    IF config.voice # VOICE_PROVIDER
    THEN "SPEC VIOLATION: Voice provider must be \"11labs\""
    ELSE IF config.provider # MODEL_PROVIDER
    THEN "SPEC VIOLATION: Model provider must be \"anthropic\""
    ELSE IF config.model # MODEL_ID
    THEN "SPEC VIOLATION: Model must be \"claude-opus-4-5-20251101\""
    ELSE IF config.thinking # THINKING_TYPE
    THEN "SPEC VIOLATION: Thinking must be enabled for Claude Opus 4.5"
    ELSE IF ~config.budgetIsNumber \/ config.budgetTokens <= 0
    THEN "SPEC VIOLATION: thinking.budgetTokens must be a positive number"
    ELSE Undef

\* The message of the ExternalServiceError createCall throws when the POST fails.
VapiErrorMessage == "Vapi error: request failed"

\* The message of DemoModeViolationError(attemptedNumber).
DemoViolationMessage(n) ==
    "DEMO_MODE violation: Cannot call " \o n \o ". Only demo numbers allowed."

\* VapiClient.createCall(sessionId, shop, assistantConfig): what it can do.
\* number is the customer.number of the POST it sent, Undef when it threw
\* before sending; error is the message it threw with, Undef when the
\* platform accepted the call.
createCall(c, shop, config) ==
    IF validateAssistantConfig(config) # Undef
    THEN {[number |-> Undef, error |-> validateAssistantConfig(config)]}
    ELSE UNION {
        IF t = Blocked
        THEN {[number |-> Undef, error |-> DemoViolationMessage(shop.phone)]}
        ELSE {[number |-> t, error |-> Undef],
              [number |-> t, error |-> VapiErrorMessage]} :
        t \in enforceDemoMode(c, shop.phone)}

\* ----------------------------------------------------------------- store
NoCall == [status |-> "ABSENT", to_number |-> Undef, vapi_call_id |-> Undef,
           ended_reason |-> Undef, transcript |-> Undef]

NoUpdate == [status |-> Undef, to_number |-> Undef, vapi_call_id |-> Undef,
             ended_reason |-> Undef, transcript |-> Undef]

CallFields == {"status", "to_number", "vapi_call_id", "ended_reason", "transcript"}

IsTerminal(c) == c.status \in {"COMPLETED", "FAILED"}

Exists(c) == c.status # "ABSENT"

\* A create that reports success without storing the item.
CallsCreateLost(cs, s, item) == cs

\* CallsRepository.create: PutCommand of the item (callers check the
\* attribute_not_exists condition first, see CanCreate).
CallsCreate(cs, s, item) == [cs EXCEPT ![s] = item]

CanCreate(cs, s) == ~Exists(cs[s])

\* An update that writes only to an item that exists.
CallsUpdateExistingOnly(cs, s, updates) ==
    IF ~Exists(cs[s]) THEN cs
    ELSE [cs EXCEPT ![s] = [f \in CallFields |->
            IF updates[f] # Undef THEN updates[f] ELSE cs[s][f]]]

\* CallsRepository.update: SET of every field of updates that is not
\* undefined.  The UpdateCommand has no ConditionExpression, so it writes
\* whatever the current status is and creates the item when there is none.
CallsUpdate(cs, s, updates) ==
    [cs EXCEPT ![s] = [f \in CallFields |->
        IF updates[f] # Undef THEN updates[f] ELSE cs[s][f]]]

\* CallsRepository.getBySession: the items that exist.
GetBySession(cs) == {s \in ShopIds : Exists(cs[s])}

\* A status update that is lost.
UpdateStatusLost(sess, st) == sess

\* SessionsRepository.updateStatus: unconditional SET of status.
UpdateStatus(sess, st) == [sess EXCEPT !.status = st]

\* A write that stores the given attributes and drops the shops list.
SessionsUpdateDroppingShops(sess, updates) ==
    [k \in DOMAIN sess |-> IF k \in DOMAIN updates THEN updates[k]
                           ELSE IF k = "shops" THEN <<>> ELSE sess[k]]

\* SessionsRepository.update: a SET expression built from the keys of
\* `updates` only; every other attribute of the item keeps its value.
SessionsUpdate(sess, updates) ==
    [k \in DOMAIN sess |-> IF k \in DOMAIN updates THEN updates[k] ELSE sess[k]]

VapiId(r, s) == "vapi-" \o ToString(r) \o "-" \o s

\* ------------------------------------------------------------------ init
Configs == [demoMode : BOOLEAN, scope : BOOLEAN,
            strategy : {"round-robin", "first"}, allowCalls : BOOLEAN]

\* The configurations the workflow is run under next to the webhook route:
\* the envSchema defaults (strict scoping, round-robin) with DEMO_MODE and
\* ALLOW_OUTBOUND_CALLS on and off, and, with both on, the strategy "first"
\* with scoping on and off.  The round-robin substitution, which only the
\* dispatcher performs, is run under SpecNumbers.
WorkflowConfigs ==
    {c \in Configs : \/ c.demoMode /\ c.allowCalls /\ c.strategy = "first"
                     \/ c.scope /\ c.strategy = "round-robin"}

NoReport == [set |-> FALSE, quotes |-> {}]

IdleRun == [pc |-> "idle", i |-> 0, shops |-> <<>>, target |-> Undef,
            err |-> Undef, summary |-> Undef, images |-> FALSE]

\* The locals of a webhook POST: its position, the event's shop and type, the
\* COMPLETED calls among the items it read, and two history flags (the event
\* is a re-delivery after synthesis; the event is the second delivery of C5).
IdleHandler == [pc |-> "idle", shop |-> Undef, type |-> Undef,
                done |-> {}, late |-> FALSE, dup |-> FALSE, engine |-> FALSE]

NoDup == [phase |-> "none",
          session |-> [status |-> Undef, report |-> NoReport],
          calls |-> [s \in ShopIds |-> NoCall]]

NoResp == [route |-> "none"]

\* The session as POST /api/v1/sessions stores it, before any start: no
\* image key and no image prompt yet.
NewSession == [status |-> "CREATED", report |-> NoReport,
               damage_summary |-> Undef, shops |-> ShopList,
               user_id |-> "owner", image_keys |-> 0, image_prompt |-> Undef]

\* The image-to-prompt callback before it is posted: no task submitted, and
\* no session status read by resumeAfterImagePrompt.
IdleCallback == [pc |-> "idle", task |-> FALSE, read |-> Undef]

\* The keys an event can name that are no call of the session: a shop id
\* that is not in its shops list, and another session id.
StrayKeys == {<<"S", "Z">>, <<"T", "A">>}

NoStray == [items |-> [k \in StrayKeys |-> NoCall], n |-> 0]

\* The state after construction: a configuration of configs and a session
\* of sessions, nothing started.
InitOf(configs, sessions) ==
    /\ cfg \in configs
    /\ session \in sessions
    /\ calls = [s \in ShopIds |-> NoCall]
    /\ wf = [r \in Starts |-> IdleRun]
    /\ hd = EmptyBag
    /\ requests = {}
    /\ placed = {}
    /\ delivered = [e \in ShopIds \X EventTypes |-> 0]
    /\ synthCount = 0
    /\ early = FALSE
    /\ dup = NoDup
    /\ gateIn = Undef
    /\ gateOut = Undef
    /\ resp = NoResp
    /\ uncorrelated = 0
    /\ forged = 0
    /\ cb = IdleCallback
    /\ stray = NoStray

InitWith(configs) == InitOf(configs, {NewSession})

Init == InitWith(WorkflowConfigs)

\* The variables only Deliver, the read routes and the stand-alone
\* applications write.
obs == <<gateIn, gateOut, resp, uncorrelated, forged, cb, stray>>

hist == <<early, dup, obs>>

\* -------------------------------------------------------------- workflow
\* A start guard that lets every session through.
CanStartAlways(sess) == TRUE

\* The condition under which the start route and runQuoteSessionWorkflow go
\* on: session.status === "CREATED" (each tests it on its own read).
CanStart(sess) == sess.status = "CREATED"

\* POST /sessions/:id/start: get the session, 400 unless it is CREATED,
\* then call runQuoteSessionWorkflow without awaiting it.
StartRoute(r) ==
    /\ wf[r].pc = "idle"
    /\ wf' = [wf EXCEPT ![r].pc =
                IF ~CanStart(session) THEN "rejected" ELSE "start"]
    /\ UNCHANGED <<cfg, session, calls, hd, requests, placed, delivered,
                   synthCount, hist>>

\* runQuoteSessionWorkflow called directly, without the route.
StartDirect(r) ==
    /\ wf[r].pc = "idle"
    /\ wf' = [wf EXCEPT ![r].pc = "start"]
    /\ UNCHANGED <<cfg, session, calls, hd, requests, placed, delivered,
                   synthCount, hist>>

\* line 46, on the session read at line 28:
\* session.image_keys?.length && !imagePrompt.
NeedsImagePrompt(sess) == sess.image_keys > 0 /\ sess.image_prompt = Undef

\* runQuoteSessionWorkflow, lines 28-35: its own get and status check; the
\* throw is outside the try, so nothing is written.  The session read here
\* is the one line 46 tests.
WorkflowGuard(r) ==
    /\ wf[r].pc = "start"
    /\ wf' = [wf EXCEPT ![r].pc =
                IF ~CanStart(session) THEN "rejected" ELSE "toAnalyzing",
                         ![r].images = NeedsImagePrompt(session)]
    /\ UNCHANGED <<cfg, session, calls, hd, requests, placed, delivered,
                   synthCount, hist>>

\* line 42: updateStatus(sessionId, "ANALYZING").
EnterAnalyzing(r) ==
    /\ wf[r].pc = "toAnalyzing"
    /\ session' = UpdateStatus(session, "ANALYZING")
    /\ wf' = [wf EXCEPT ![r].pc = IF wf[r].images THEN "imageTask"
                                  ELSE "analyze"]
    /\ UNCHANGED <<cfg, calls, hd, requests, placed, delivered,
                   synthCount, hist>>

\* A workflow that waits for the image prompt after submitting the task.
AfterImageTaskWait(w) == [w EXCEPT !.pc = "awaitPrompt"]

\* lines 52-56: "continue without waiting for image prompt".
AfterImageTask(w) == [w EXCEPT !.pc = "analyze"]

\* lines 46-56: sign a read URL for the first image and submit the
\* image-to-prompt task; either await can throw into the catch of line 153.
SubmitImageTask(r) ==
    /\ wf[r].pc = "imageTask"
    /\ \/ /\ wf' = [wf EXCEPT ![r] = AfterImageTask(wf[r])]
          /\ cb' = [cb EXCEPT !.task = TRUE]
       \/ /\ wf' = [wf EXCEPT ![r].pc = "catch"]
          /\ cb' = cb
    /\ UNCHANGED <<cfg, session, calls, hd, requests, placed, delivered,
                   synthCount, early, dup, gateIn, gateOut, resp,
                   uncorrelated, forged, stray>>

\* A workflow that logs the failure of the analysis and goes on.
AfterAnalysisFailureGoOn(w) == [w EXCEPT !.pc = "toCalling"]

\* The await of line 63 is inside the try of line 37: a throw of the engine
\* or of JSON.parse goes to the catch of lines 153-157.
AfterAnalysisFailure(w) == [w EXCEPT !.pc = "catch"]

\* OpenRouterService.generateDamageSummary(description_raw, image_prompt,
\* vehicle): the summary the engine returns, which says whether an image
\* description was part of the prompt.
DamageSummary(imagePrompt) ==
    IF imagePrompt = Undef THEN "summary" ELSE "summary with image"

\* lines 59-67: re-read the session and ask the damage-analysis engine, which
\* returns a summary or throws (engine error, unparsable output).
AnalyzeDamage(r) ==
    /\ wf[r].pc = "analyze"
    /\ \/ wf' = [wf EXCEPT ![r].pc = "saveSummary",
                            ![r].summary = DamageSummary(session.image_prompt)]
       \/ wf' = [wf EXCEPT ![r] = AfterAnalysisFailure(wf[r])]
    /\ UNCHANGED <<cfg, session, calls, hd, requests, placed, delivered,
                   synthCount, hist>>

\* line 69: update(sessionId, { damage_summary }).
SaveSummary(r) ==
    /\ wf[r].pc = "saveSummary"
    /\ session' = [session EXCEPT !.damage_summary = wf[r].summary]
    /\ wf' = [wf EXCEPT ![r].pc = "toCalling"]
    /\ UNCHANGED <<cfg, calls, hd, requests, placed, delivered,
                   synthCount, hist>>

\* line 76: updateStatus(sessionId, "CALLING").
EnterCalling(r) ==
    /\ wf[r].pc = "toCalling"
    /\ session' = UpdateStatus(session, "CALLING")
    /\ wf' = [wf EXCEPT ![r].pc = "afterCalling"]
    /\ UNCHANGED <<cfg, calls, hd, requests, placed, delivered,
                   synthCount, hist>>

\* The position after one shop of the loop has been handled.
NextShop(w) ==
    IF w.i + 1 > Len(w.shops)
    THEN [w EXCEPT !.pc = "done", !.i = w.i + 1, !.target = Undef, !.err = Undef]
    ELSE [w EXCEPT !.pc = "gate", !.i = w.i + 1, !.target = Undef, !.err = Undef]

\* A per-shop catch that rethrows to the workflow's outer catch.
AfterShopFailureAbort(w) == [w EXCEPT !.pc = "catch"]

\* lines 123-143: after the per-shop catch the loop goes on with the next shop.
AfterShopFailure(w) == NextShop(w)

\* lines 79-84 with calls disabled: updateStatus(sessionId, "SUMMARIZING").
SkipCalls(r) ==
    /\ wf[r].pc = "afterCalling"
    /\ ~areCallsAllowed(cfg)
    /\ session' = UpdateStatus(session, "SUMMARIZING")
    /\ wf' = [wf EXCEPT ![r].pc = "skipDone"]
    /\ UNCHANGED <<cfg, calls, hd, requests, placed, delivered,
                   synthCount, hist>>

\* line 82: updateStatus(sessionId, "DONE"); return.
SkipDone(r) ==
    /\ wf[r].pc = "skipDone"
    /\ session' = UpdateStatus(session, "DONE")
    /\ wf' = [wf EXCEPT ![r].pc = "done"]
    /\ UNCHANGED <<cfg, calls, hd, requests, placed, delivered,
                   synthCount, hist>>

\* lines 87-94: getOrThrow the session; its shops are the list of the loop.
LoadShops(r) ==
    /\ wf[r].pc = "afterCalling"
    /\ areCallsAllowed(cfg)
    /\ wf' = [wf EXCEPT ![r] =
                NextShop([wf[r] EXCEPT !.shops = session.shops, !.i = 0])]
    /\ UNCHANGED <<cfg, session, calls, hd, requests, placed, delivered,
                   synthCount, hist>>

\* lines 97-107: enforceDemoMode(shop.phone), then CallsRepository.create of a
\* PENDING item; a throw of either goes to the per-shop catch.
GateAndCreate(r) ==
    /\ wf[r].pc = "gate"
    /\ LET shop == wf[r].shops[wf[r].i] IN
       \E t \in enforceDemoMode(cfg, shop.phone) :
          IF t = Blocked
          THEN /\ wf' = [wf EXCEPT ![r].pc = "shopCatch",
                                   ![r].err = DemoViolationMessage(shop.phone)]
               /\ calls' = calls
          ELSE IF ~CanCreate(calls, shop.id)
          THEN /\ wf' = [wf EXCEPT ![r].pc = "shopCatch",
                                   ![r].err = "Call already exists for session, shop " \o shop.id]
               /\ calls' = calls
          ELSE /\ calls' = CallsCreate(calls, shop.id,
                              [NoCall EXCEPT !.status = "PENDING", !.to_number = t])
               /\ wf' = [wf EXCEPT ![r].pc = "dial", ![r].target = t]
    /\ UNCHANGED <<cfg, session, hd, requests, placed, delivered,
                   synthCount, hist>>

\* lines 110-114: VapiClient.createCall with the configuration built at
\* line 89.  A throw goes to the per-shop catch with its message.
Dial(r) ==
    /\ wf[r].pc = "dial"
    /\ LET shop == wf[r].shops[wf[r].i] IN
       \E o \in createCall(cfg, shop, buildAssistantConfig) :
          /\ requests' = IF o.number = Undef THEN requests
                         ELSE requests \cup
                              {[run |-> r, shop |-> shop.id, number |-> o.number,
                                config |-> buildAssistantConfig]}
          /\ IF o.error = Undef
             THEN /\ placed' = placed \cup {[run |-> r, shop |-> shop.id]}
                  /\ wf' = [wf EXCEPT ![r].pc = "markInProgress"]
             ELSE /\ placed' = placed
                  /\ wf' = [wf EXCEPT ![r].pc = "shopCatch", ![r].err = o.error]
    /\ UNCHANGED <<cfg, session, calls, hd, delivered, synthCount, hist>>

\* lines 117-120: update(sessionId, shop.id, { vapi_call_id, status: "IN_PROGRESS" }).
MarkInProgress(r) ==
    /\ wf[r].pc = "markInProgress"
    /\ LET shop == wf[r].shops[wf[r].i] IN
       calls' = CallsUpdate(calls, shop.id,
                   [NoUpdate EXCEPT !.status = "IN_PROGRESS",
                                    !.vapi_call_id = VapiId(r, shop.id)])
    /\ wf' = [wf EXCEPT ![r] = NextShop(wf[r])]
    /\ UNCHANGED <<cfg, session, hd, requests, placed, delivered,
                   synthCount, hist>>

\* lines 123-131: the per-shop catch: update(sessionId, shop.id, { status:
\* "FAILED", ended_reason }).  The update is an upsert and does not throw for
\* a missing item, so the create of lines 134-141 is not reached.
ShopCatch(r) ==
    /\ wf[r].pc = "shopCatch"
    /\ LET shop == wf[r].shops[wf[r].i] IN
       calls' = CallsUpdate(calls, shop.id,
                   [NoUpdate EXCEPT !.status = "FAILED",
                                    !.ended_reason = wf[r].err])
    /\ wf' = [wf EXCEPT ![r] = AfterShopFailure(wf[r])]
    /\ UNCHANGED <<cfg, session, hd, requests, placed, delivered,
                   synthCount, hist>>

\* lines 153-157: the outer catch: updateStatus(sessionId, "FAILED"); rethrow.
WorkflowCatch(r) ==
    /\ wf[r].pc = "catch"
    /\ session' = UpdateStatus(session, "FAILED")
    /\ wf' = [wf EXCEPT ![r].pc = "failed"]
    /\ UNCHANGED <<cfg, calls, hd, requests, placed, delivered,
                   synthCount, hist>>

Workflow(r) ==
    \/ StartRoute(r) \/ WorkflowGuard(r) \/ EnterAnalyzing(r)
    \/ AnalyzeDamage(r) \/ SaveSummary(r) \/ EnterCalling(r)
    \/ SkipCalls(r) \/ SkipDone(r) \/ LoadShops(r)
    \/ GateAndCreate(r) \/ Dial(r) \/ MarkInProgress(r)
    \/ ShopCatch(r) \/ WorkflowCatch(r)

\* initiateCallsTool.execute, tools.ts lines 95-116: throw when calls are
\* disabled, else get the session; its shops are the list of the loop.  No
\* status is read or written.
InitiateCallsTool(r) ==
    /\ wf[r].pc = "idle"
    /\ wf' = [wf EXCEPT ![r] =
                IF ~areCallsAllowed(cfg)
                THEN [wf[r] EXCEPT !.pc = "threw"]
                ELSE NextShop([wf[r] EXCEPT !.shops = session.shops, !.i = 0])]
    /\ UNCHANGED <<cfg, session, calls, hd, requests, placed, delivered,
                   synthCount, hist>>

\* The tool's loop (tools.ts lines 116-167) is the statements of the
\* workflow's loop; its catch is the update of ShopCatch.
Tool(r) ==
    \/ InitiateCallsTool(r)
    \/ GateAndCreate(r) \/ Dial(r) \/ MarkInProgress(r) \/ ShopCatch(r)

\* --------------------------------------------------------------- webhook
RECURSIVE SumOver(_, _)
SumOver(f, D) ==
    IF D = {} THEN 0
    ELSE LET e == CHOOSE x \in D : TRUE IN f[e] + SumOver(f, D \ {e})

TotalDelivered == SumOver(delivered, DOMAIN delivered)

RunActive(w) == w.pc \notin {"idle", "done", "failed", "rejected"}

\* Every run that was started has left the dispatch loop.
DispatchFinished ==
    /\ \A r \in Runs : ~RunActive(wf[r])
    /\ \E r \in Runs : wf[r].pc = "done"

\* The webhook requests in flight.
Handlers == BagToSet(hd)

AllIdle == hd = EmptyBag

\* The requests in flight when request x moves on to y, and when it returns.
Moved(x, y) == (hd (-) SetToBag({x})) (+) SetToBag({y})
Returned(x) == hd (-) SetToBag({x})

\* What the claims call the stored state: the call items and the session's
\* status and report (timestamps are not modelled).
Stored == [session |-> [status |-> session.status, report |-> session.report],
           calls |-> calls]

\* The history of C5 once the handler of the second delivery has returned.
DupAfter(x) == IF x.dup THEN [dup EXCEPT !.phase = "finished"] ELSE dup

\* The updates object the webhook passes to CallsRepository.update
\* (route.ts lines 77-80, 98-107, 117-120).
WebhookUpdates(ty, id) ==
    CASE ty = "call.started" ->
            [NoUpdate EXCEPT !.status = "IN_PROGRESS", !.vapi_call_id = id]
      [] ty = "call.ended" ->
            [NoUpdate EXCEPT !.status = "COMPLETED", !.transcript = "transcript",
                             !.ended_reason = "customer-ended-call"]
      [] ty = "call.failed" ->
            [NoUpdate EXCEPT !.status = "FAILED", !.ended_reason = "no-answer"]

\* The metadata an event can carry, and the metadata createCall attaches
\* (client.ts lines 55-62): the session and the shop of the call.
Metas == [session_id : {"S", Undef}, shop_id : ShopIds \cup {Undef}]

Correlated == {[session_id |-> "S", shop_id |-> s] : s \in ShopIds}

\* A test that looks at shop_id only.
HasCorrelationShopOnly(meta) == meta.shop_id # Undef

\* route.ts line 63: metadata?.session_id and metadata?.shop_id are both there.
HasCorrelation(meta) == meta.session_id # Undef /\ meta.shop_id # Undef

\* The 200 response of line 66.
MissingMetadataAck ==
    [route |-> "webhook", code |-> 200, received |-> TRUE,
     warning |-> "Missing metadata"]

\* The secret the platform and this system share (env VAPI_WEBHOOK_SECRET).
VAPI_WEBHOOK_SECRET == "secret"

\* The raw body of an event, as far as the signature depends on it.
Body(meta, ty) == ty \o "/" \o meta.session_id \o "/" \o meta.shop_id

\* createHmac("sha256", key).update(body).digest("hex"): a value that
\* differs whenever the key or the body does.
Hmac(key, body) == "hmac(" \o key \o "," \o body \o ")"

\* What a POST can carry as x-vapi-signature: no header, an empty header,
\* the HMAC of its body under the secret, an HMAC under another key, and the
\* HMAC of another body under the secret.
HeaderKinds == {"absent", "empty", "valid", "wrong-key", "other-body"}

\* What the platform's own POSTs carry: the HMAC of the body under the
\* shared secret.
PlatformHeaderKinds == {"valid"}

\* req.headers.get("x-vapi-signature") for a POST of that kind and body.
Header(kind, body) ==
    CASE kind = "absent" -> Undef
      [] kind = "empty" -> ""
      [] kind = "valid" -> Hmac(VAPI_WEBHOOK_SECRET, body)
      [] kind = "wrong-key" -> Hmac("another key", body)
      [] kind = "other-body" -> Hmac(VAPI_WEBHOOK_SECRET, "another body")

\* route.ts lines 38-53: if (signature) { ... if (signature !==
\* expectedSignature) return 401 }.  A missing header (null) and an empty
\* one are both falsy, so neither is compared.
SignatureRejected(signature, body) ==
    /\ signature # Undef
    /\ signature # ""
    /\ signature # Hmac(VAPI_WEBHOOK_SECRET, body)

\* The 401 response of lines 48-51.
InvalidSignatureResponse ==
    [route |-> "webhook", code |-> 401, error |-> "Invalid signature"]

\* POST /api/vapi/webhook up to and including its first store operation.
\* A signature that is compared and differs is answered 401 before the body
\* is parsed (lines 38-53).  An event without correlation is answered at
\* once (lines 63-67).  Otherwise the event is one of a call the platform
\* accepted, and the step is the CallsRepository.update of its case;
\* call.started ends there, a terminal event goes on to
\* checkSessionCompletion.
Deliver(kind, meta, ty) ==
    LET signature == Header(kind, Body(meta, ty))
        rejected == SignatureRejected(signature, Body(meta, ty))
    IN
    /\ TotalDelivered + uncorrelated + forged < MaxDeliveries
    /\ forged' = IF signature # Undef
                    /\ signature # Hmac(VAPI_WEBHOOK_SECRET, Body(meta, ty))
                 THEN forged + 1 ELSE forged
    /\ uncorrelated' = IF meta \in Correlated \/ rejected THEN uncorrelated
                                                          ELSE uncorrelated + 1
    /\ IF rejected
       THEN /\ resp' = InvalidSignatureResponse
            /\ UNCHANGED <<cfg, session, calls, wf, hd, requests, placed,
                           delivered, synthCount, early, dup, gateIn, gateOut,
                           cb, stray>>
       ELSE IF ~HasCorrelation(meta)
       THEN /\ resp' = MissingMetadataAck
            /\ UNCHANGED <<cfg, session, calls, wf, hd, requests, placed,
                           delivered, synthCount, early, dup, gateIn, gateOut,
                           cb, stray>>
       ELSE
       LET s == meta.shop_id IN
       /\ BagCardinality(hd) < NumHandlers
       /\ \E p \in placed :
             /\ p.shop = s
             /\ calls' = CallsUpdate(calls, s, WebhookUpdates(ty, VapiId(p.run, s)))
       /\ LET second == /\ ty = "call.ended"
                        /\ TotalDelivered = 1
                        /\ delivered[<<s, ty>>] = 1
                        /\ AllIdle
                        /\ ~early /\ DispatchFinished
          IN
          /\ hd' = IF ty \in TerminalEvents
                   THEN hd (+) SetToBag({[IdleHandler EXCEPT
                            !.pc = "check", !.shop = s, !.type = ty,
                            !.late = (synthCount >= 1 /\ delivered[<<s, ty>>] >= 1),
                            !.dup = second]})
                   ELSE hd
          /\ dup' = IF second
                    THEN [phase |-> "running", session |-> Stored.session,
                          calls |-> Stored.calls]
                    ELSE NoDup
       /\ delivered' = [delivered EXCEPT ![<<s, ty>>] = @ + 1]
       /\ early' = (early \/ ~DispatchFinished)
       /\ UNCHANGED <<cfg, session, wf, requests, placed, synthCount,
                      gateIn, gateOut, resp, cb, stray>>

\* A test that is satisfied by one finished call.
allCompleteSome(cs, seen) == \E s \in seen : IsTerminal(cs[s])

\* lines 77-79: calls.every(c => ["COMPLETED", "FAILED"].includes(c.status)).
allComplete(cs, seen) == \A s \in seen : IsTerminal(cs[s])

\* The keys of the items of session id that are stored under a shop id the
\* session does not list: getBySession returns them with the others.
StrayItemsOf(id) == {k \in StrayKeys : k[1] = id /\ Exists(stray.items[k])}

\* checkSessionCompletion lines 76-89: getBySession, then return unless every
\* item read is COMPLETED or FAILED.  The items read stay in the local calls.
CheckCompletion(x) ==
    /\ x.pc = "check"
    /\ LET seen == GetBySession(calls)
           strays == StrayItemsOf("S")
       IN
       IF allComplete(calls, seen) /\ allComplete(stray.items, strays)
       THEN /\ hd' = Moved(x, [x EXCEPT !.pc = "toSummarizing",
                          !.done = {s \in seen : calls[s].status = "COMPLETED"}
                              \cup {k[2] : k \in {j \in strays :
                                        stray.items[j].status = "COMPLETED"}}])
            /\ dup' = dup
       ELSE /\ hd' = Returned(x)
            /\ dup' = DupAfter(x)
    /\ UNCHANGED <<cfg, session, calls, wf, requests, placed, delivered,
                   synthCount, early, obs>>

\* line 97: updateStatus(sessionId, "SUMMARIZING").
EnterSummarizing(x) ==
    /\ x.pc = "toSummarizing"
    /\ session' = UpdateStatus(session, "SUMMARIZING")
    /\ hd' = Moved(x, [x EXCEPT !.pc = "report"])
    /\ UNCHANGED <<cfg, calls, wf, requests, placed, delivered,
                   synthCount, hist>>

\* A generateFinalReport that asks the engine whatever the calls are.
UsesEngineAlways(done) == TRUE

\* index.ts lines 129-131: the engine is asked unless completedCalls is empty.
UsesEngine(done) == done # {}

\* line 100, generateFinalReport (lines 120-163): with no COMPLETED call the
\* fixed empty report is stored; otherwise the engine is asked and its
\* report stored, or the engine or JSON.parse throws.  engine records that
\* this request asked the engine.
GenerateFinalReport(x) ==
    /\ x.pc = "report"
    /\ synthCount' = synthCount + 1
    /\ \/ /\ session' = [session EXCEPT !.report =
                            [set |-> TRUE, quotes |-> x.done]]
          /\ hd' = Moved(x, [x EXCEPT !.pc = "toDone",
                                      !.engine = UsesEngine(x.done)])
       \/ /\ UsesEngine(x.done)
          /\ session' = session
          /\ hd' = Moved(x, [x EXCEPT !.pc = "toFailed", !.engine = TRUE])
    /\ UNCHANGED <<cfg, calls, wf, requests, placed, delivered, hist>>

\* line 103: updateStatus(sessionId, "DONE").
FinishDone(x) ==
    /\ x.pc = "toDone"
    /\ session' = UpdateStatus(session, "DONE")
    /\ hd' = Returned(x)
    /\ dup' = DupAfter(x)
    /\ UNCHANGED <<cfg, calls, wf, requests, placed, delivered,
                   synthCount, early, obs>>

\* lines 105-111: the catch: updateStatus(sessionId, "FAILED").
FinishFailed(x) ==
    /\ x.pc = "toFailed"
    /\ session' = UpdateStatus(session, "FAILED")
    /\ hd' = Returned(x)
    /\ dup' = DupAfter(x)
    /\ UNCHANGED <<cfg, calls, wf, requests, placed, delivered,
                   synthCount, early, obs>>

\* The webhook route for events whose metadata is drawn from metas and
\* whose signature header is of one of kinds.
WebhookFrom(kinds, metas) ==
    \/ \E kind \in kinds, meta \in metas, ty \in EventTypes :
          Deliver(kind, meta, ty)
    \/ \E x \in Handlers :
          \/ CheckCompletion(x) \/ EnterSummarizing(x) \/ GenerateFinalReport(x)
          \/ FinishDone(x) \/ FinishFailed(x)

\* What an event can name when it is not of a call this system placed: a
\* shop of the session that was not dialed, a shop id the session does not
\* list, another session id.
UnsolicitedMetas ==
    Correlated \cup {[session_id |-> k[1], shop_id |-> k[2]] : k \in StrayKeys}

\* The id such an event carries as call.id.
UnsolicitedCallId == "vapi-unsolicited"

\* POST /api/vapi/webhook for an event, sent without signature header, of a
\* call this system did not place.  The route has no other test than those
\* of Deliver: it passes the key of the metadata to CallsRepository.update,
\* an upsert, and a terminal event goes on to checkSessionCompletion.  For
\* another session id only call.started is sent, whose request ends with
\* the update.
DeliverUnsolicited(meta, ty) ==
    LET key == <<meta.session_id, meta.shop_id>>
        updates == WebhookUpdates(ty, UnsolicitedCallId)
        request == [IdleHandler EXCEPT !.pc = "check", !.shop = meta.shop_id,
                                       !.type = ty]
    IN
    /\ TotalDelivered + uncorrelated + forged + stray.n < MaxDeliveries
    /\ BagCardinality(hd) < NumHandlers
    /\ ~SignatureRejected(Header("absent", Body(meta, ty)), Body(meta, ty))
    /\ HasCorrelation(meta)
    /\ \A p \in placed : meta \in Correlated => p.shop # meta.shop_id
    /\ meta.session_id # "S" => ty = "call.started"
    /\ IF meta \in Correlated
       THEN /\ calls' = CallsUpdate(calls, meta.shop_id, updates)
            /\ delivered' = [delivered EXCEPT ![<<meta.shop_id, ty>>] = @ + 1]
            /\ stray' = stray
       ELSE /\ stray' = [items |-> CallsUpdate(stray.items, key, updates),
                         n |-> stray.n + 1]
            /\ UNCHANGED <<calls, delivered>>
    /\ hd' = IF ty \in TerminalEvents THEN hd (+) SetToBag({request}) ELSE hd
    /\ early' = (early \/ ~DispatchFinished)
    /\ dup' = NoDup
    /\ UNCHANGED <<cfg, session, wf, requests, placed, synthCount,
                   gateIn, gateOut, resp, uncorrelated, forged, cb>>

\* One terminal event of a placed call that has had none, received when
\* dispatch has finished and no other webhook request is in flight.
DeliverInTurn ==
    /\ DispatchFinished
    /\ AllIdle
    /\ \E meta \in Correlated, ty \in TerminalEvents :
          /\ delivered[<<meta.shop_id, "call.ended">>] = 0
          /\ delivered[<<meta.shop_id, "call.failed">>] = 0
          /\ Deliver("valid", meta, ty)

\* The remaining steps of the webhook request in flight.
HandleInTurn ==
    \E x \in Handlers :
       \/ CheckCompletion(x) \/ EnterSummarizing(x) \/ GenerateFinalReport(x)
       \/ FinishDone(x) \/ FinishFailed(x)

\* The events of the calls this system placed carry their correlation, and
\* the platform signs them with the shared secret.
Webhook == WebhookFrom(PlatformHeaderKinds, Correlated)

\* ----------------------------------------------------------- read routes
\* Who asks: the session's owner, another signed-in user, nobody signed in.
Users == {"owner", "other", Undef}

\* The report as a response body carries it (NoReport: the body has none).
ReportData(sess) == IF sess.report.set THEN sess.report ELSE NoReport

\* A report route that answers with whatever report is stored.
ReportResponseNoStatusCheck(sess, user) ==
    IF user = Undef THEN [code |-> 401, report |-> NoReport]
    ELSE IF sess.user_id # user THEN [code |-> 403, report |-> NoReport]
    ELSE IF ~sess.report.set THEN [code |-> 404, report |-> NoReport]
    ELSE [code |-> 200, report |-> sess.report]

\* GET /api/v1/sessions/:id/report: 401 without a user, 403 for another
\* user, 400 "Report not ready" unless the status is DONE, 404 when DONE
\* without a report, else the report.
ReportResponse(sess, user) ==
    IF user = Undef THEN [code |-> 401, report |-> NoReport]
    ELSE IF sess.user_id # user THEN [code |-> 403, report |-> NoReport]
    ELSE IF sess.status # "DONE" THEN [code |-> 400, report |-> NoReport]
    ELSE IF ~sess.report.set THEN [code |-> 404, report |-> NoReport]
    ELSE [code |-> 200, report |-> sess.report]

\* GET /api/v1/sessions/:id: 401, 403, else the session item as stored.
SessionResponse(sess, user) ==
    IF user = Undef THEN [code |-> 401, report |-> NoReport]
    ELSE IF sess.user_id # user THEN [code |-> 403, report |-> NoReport]
    ELSE [code |-> 200, report |-> ReportData(sess)]

\* One GET of the report route; seen is the status the session had.
GetReport(user) ==
    /\ resp' = [route |-> "report", user |-> user, seen |-> session.status,
                code |-> ReportResponse(session, user).code,
                report |-> ReportResponse(session, user).report]
    /\ UNCHANGED <<cfg, session, calls, wf, hd, requests, placed, delivered,
                   synthCount, early, dup, gateIn, gateOut, uncorrelated, forged, cb, stray>>

\* One GET of the session route.
GetSession(user) ==
    /\ resp' = [route |-> "session", user |-> user, seen |-> session.status,
                code |-> SessionResponse(session, user).code,
                report |-> SessionResponse(session, user).report]
    /\ UNCHANGED <<cfg, session, calls, wf, hd, requests, placed, delivered,
                   synthCount, early, dup, gateIn, gateOut, uncorrelated, forged, cb, stray>>

\* ------------------------------------------------- images and callback
\* upload route, line 111: existingKeys.length >= 3 is refused.
MaxImages == 3

\* The upload route goes on for a session that is CREATED and has fewer
\* than three image keys (lines 80 and 111).
CanUpload(sess) == sess.status = "CREATED" /\ sess.image_keys < MaxImages

\* POST /sessions/:id/upload by the owner: one more image key.
Upload ==
    /\ CanUpload(session)
    /\ session' = SessionsUpdate(session,
                                 [image_keys |-> session.image_keys + 1])
    /\ UNCHANGED <<cfg, calls, wf, hd, requests, placed, delivered,
                   synthCount, hist>>

\* The bodies the image service posts: COMPLETED with and without a prompt,
\* FAILED, PENDING.
ImagePayloads ==
    {[status |-> "COMPLETED", prompt |-> "prompt"],
     [status |-> "COMPLETED", prompt |-> Undef],
     [status |-> "FAILED", prompt |-> Undef],
     [status |-> "PENDING", prompt |-> Undef]}

\* POST /api/webhooks/image-to-prompt for the task the workflow submitted:
\* on COMPLETED with a prompt the route stores image_prompt (line 79) and
\* calls resumeAfterImagePrompt; every other body is only logged.
ImageCallback ==
    /\ cb.pc = "idle"
    /\ cb.task
    /\ \E p \in ImagePayloads :
          IF p.status = "COMPLETED" /\ p.prompt # Undef
          THEN /\ session' = SessionsUpdate(session, [image_prompt |-> p.prompt])
               /\ cb' = [cb EXCEPT !.pc = "resume"]
          ELSE /\ session' = session
               /\ cb' = [cb EXCEPT !.pc = "done"]
    /\ UNCHANGED <<cfg, calls, wf, hd, requests, placed, delivered,
                   synthCount, early, dup, gateIn, gateOut, resp,
                   uncorrelated, forged, stray>>

\* A resume that goes on whatever the status is.
CanResumeAlways(sess) == TRUE

\* resumeAfterImagePrompt, line 250: it goes on only for status ANALYZING.
CanResume(sess) == sess.status = "ANALYZING"

\* lines 243-255: get the session and return unless it is ANALYZING.
ResumeCheck ==
    /\ cb.pc = "resume"
    /\ cb' = [cb EXCEPT !.read = session.status,
                        !.pc = IF CanResume(session) THEN "savePrompt"
                               ELSE "done"]
    /\ UNCHANGED <<cfg, session, calls, wf, hd, requests, placed, delivered,
                   synthCount, early, dup, gateIn, gateOut, resp,
                   uncorrelated, forged, stray>>

\* line 259: update(sessionId, { image_prompt }).
ResumeSavePrompt ==
    /\ cb.pc = "savePrompt"
    /\ session' = SessionsUpdate(session, [image_prompt |-> "prompt"])
    /\ cb' = [cb EXCEPT !.pc = "engine"]
    /\ UNCHANGED <<cfg, calls, wf, hd, requests, placed, delivered,
                   synthCount, early, dup, gateIn, gateOut, resp,
                   uncorrelated, forged, stray>>

\* lines 262-266: the damage-analysis engine returns a summary or throws.
ResumeAnalyze ==
    /\ cb.pc = "engine"
    /\ \/ cb' = [cb EXCEPT !.pc = "saveSummary"]
       \/ cb' = [cb EXCEPT !.pc = "catch"]
    /\ UNCHANGED <<cfg, session, calls, wf, hd, requests, placed, delivered,
                   synthCount, early, dup, gateIn, gateOut, resp,
                   uncorrelated, forged, stray>>

\* line 268: update(sessionId, { damage_summary: summary }).
ResumeSaveSummary ==
    /\ cb.pc = "saveSummary"
    /\ session' = SessionsUpdate(session,
                                 [damage_summary |-> DamageSummary("prompt")])
    /\ cb' = [cb EXCEPT !.pc = "done"]
    /\ UNCHANGED <<cfg, calls, wf, hd, requests, placed, delivered,
                   synthCount, early, dup, gateIn, gateOut, resp,
                   uncorrelated, forged, stray>>

\* lines 275-280: the catch writes FAILED.
ResumeCatch ==
    /\ cb.pc = "catch"
    /\ session' = UpdateStatus(session, "FAILED")
    /\ cb' = [cb EXCEPT !.pc = "done"]
    /\ UNCHANGED <<cfg, calls, wf, hd, requests, placed, delivered,
                   synthCount, early, dup, gateIn, gateOut, resp,
                   uncorrelated, forged, stray>>

resumeAfterImagePrompt ==
    \/ ResumeCheck \/ ResumeSavePrompt \/ ResumeAnalyze
    \/ ResumeSaveSummary \/ ResumeCatch

ImageToPrompt == ImageCallback \/ resumeAfterImagePrompt

\* ------------------------------------------------------- specifications
Next ==
    \/ \E r \in Runs : Workflow(r)
    \/ Webhook

Spec == Init /\ [][Next]_vars

\* The same system with its scheduling: a workflow run whose next await can
\* resolve and a webhook request in flight are eventually continued by the
\* event loop, and an event the platform can deliver is eventually delivered.
FairSpec ==
    /\ Spec
    /\ WF_vars(\E r \in Runs : Workflow(r))
    /\ WF_vars(Webhook)

\* The configurations of the two specifications below: the envSchema
\* defaults, with ALLOW_OUTBOUND_CALLS on and off.
RoutesConfigs ==
    {c \in Configs : c.demoMode /\ c.scope /\ c.strategy = "round-robin"}

InitRoutes == InitWith(RoutesConfigs)

\* The workflow and the webhook route for events with and without
\* correlation.
NextWebhook ==
    \/ \E r \in Runs : Workflow(r)
    \/ WebhookFrom(PlatformHeaderKinds, Metas)

SpecWebhook == InitRoutes /\ [][NextWebhook]_vars

\* The workflow and the webhook route for POSTs anyone can send: events of
\* the calls placed, under every kind of signature header.
NextSigned ==
    \/ \E r \in Runs : Workflow(r)
    \/ WebhookFrom(HeaderKinds, Correlated)

SpecSigned == InitRoutes /\ [][NextSigned]_vars

\* The workflow followed by one terminal event per placed call, the events
\* processed one after the other in any order.
NextSequential ==
    \/ \E r \in Runs : Workflow(r)
    \/ DeliverInTurn
    \/ HandleInTurn

SpecSequential == Init /\ [][NextSequential]_vars

\* The workflow and the webhook route for the events of the calls placed
\* and for events of calls that were not.
NextUnsolicited ==
    \/ \E r \in Runs : Workflow(r)
    \/ Webhook
    \/ \E meta \in UnsolicitedMetas, ty \in EventTypes :
          DeliverUnsolicited(meta, ty)

SpecUnsolicited == InitRoutes /\ [][NextUnsolicited]_vars

\* The workflow, the webhook route and the two read routes.
NextRead ==
    \/ \E r \in Runs : Workflow(r)
    \/ Webhook
    \/ \E user \in Users : GetReport(user) \/ GetSession(user)

SpecRead == InitRoutes /\ [][NextRead]_vars

\* The workflow, the webhook route and the report route.
NextReport ==
    \/ \E r \in Runs : Workflow(r)
    \/ Webhook
    \/ \E user \in Users : GetReport(user)

SpecReport == InitRoutes /\ [][NextReport]_vars

\* VapiClient.createCall on its own: called for a shop of the session with
\* any assistant configuration, under the configuration drawn by Init.
CreateCallDirect ==
    /\ \E k \in 1..Len(ShopList), config \in AssistantConfigs :
          \E o \in createCall(cfg, ShopList[k], config) :
             /\ resp' = [route |-> "createCall", config |-> config,
                         number |-> o.number, error |-> o.error]
             /\ requests' = IF o.number = Undef THEN requests
                            ELSE requests \cup
                                 {[run |-> 0, shop |-> ShopList[k].id,
                                   number |-> o.number, config |-> config]}
    /\ UNCHANGED <<cfg, session, calls, wf, hd, placed, delivered,
                   synthCount, early, dup, gateIn, gateOut, uncorrelated, forged, cb, stray>>

NextCreateCall == CreateCallDirect

InitCreateCall == InitWith(Configs)

SpecCreateCall == InitCreateCall /\ [][NextCreateCall]_vars

\* The workflow on its own under every configuration: what the dispatcher
\* stores and what it sends to the platform.
NextNumbers == \E r \in Runs : Workflow(r)

InitNumbers == InitWith(Configs)

SpecNumbers == InitNumbers /\ [][NextNumbers]_vars

\* Two start requests for the same session, through the route or directly.
\* No call is answered here: Deliver is not part of it.
NextStart == \E r \in Starts : Workflow(r) \/ StartDirect(r)

SpecStart == Init /\ [][NextStart]_vars

\* The workflow and an invocation of initiateCallsTool for the same session,
\* under every configuration.
NextTool ==
    \/ \E r \in Runs : Workflow(r)
    \/ \E r \in ToolRuns : Tool(r)

InitTool == InitWith(Configs)

SpecTool == InitTool /\ [][NextTool]_vars

\* The destination gate on its own: enforceDemoMode applied to a number
\* under the configuration drawn by Init.
Numbers == {"X", "Y", " X", "R1", "R2", "R3"}

ApplyGate ==
    /\ \E n \in Numbers : \E t \in enforceDemoMode(cfg, n) :
          /\ gateIn' = n
          /\ gateOut' = t
    /\ UNCHANGED <<cfg, session, calls, wf, hd, requests, placed, delivered,
                   synthCount, early, dup, resp, uncorrelated, forged, cb, stray>>

NextGate == ApplyGate

InitGate == InitWith(Configs)

SpecGate == InitGate /\ [][NextGate]_vars

\* The workflow of a session with one uploaded image, and the callback of
\* the image task it submits.
InitAnalysis == InitOf(WorkflowConfigs, {[NewSession EXCEPT !.image_keys = 1]})

NextAnalysis ==
    \/ \E r \in Runs : Workflow(r) \/ SubmitImageTask(r)
    \/ ImageToPrompt

SpecAnalysis == InitAnalysis /\ [][NextAnalysis]_vars

\* The same with the scheduling of the workflow's awaits; nothing obliges
\* the image service to post its callback.
FairAnalysis ==
    /\ SpecAnalysis
    /\ WF_vars(\E r \in Runs : Workflow(r) \/ SubmitImageTask(r))

\* Every operation on a created session: uploads, the workflow, the image
\* callback, and the terminal events of the placed calls, handled one
\* request after the other once dispatch has finished.
NextImages ==
    \/ Upload
    \/ \E r \in Runs : Workflow(r) \/ SubmitImageTask(r)
    \/ DeliverInTurn
    \/ HandleInTurn
    \/ ImageToPrompt

SpecImages == InitRoutes /\ [][NextImages]_vars

\* ================================================================ claims
TerminalDeliveries(s) ==
    delivered[<<s, "call.ended">>] + delivered[<<s, "call.failed">>]

\* The scenario of C1: nothing was delivered before dispatch had finished,
\* no call.started was delivered, and every call got at most one terminal event.
OnceEach ==
    /\ ~early
    /\ \A s \in ShopIds : delivered[<<s, "call.started">>] = 0
    /\ \A s \in ShopIds : TerminalDeliveries(s) <= 1

AllTerminalDelivered ==
    /\ placed # {}
    /\ \A p \in placed : TerminalDeliveries(p.shop) = 1

\* C1: when dispatch has finished and the terminal events of the calls are
\* delivered once each, in any interleaving of the handlers,
\* generateFinalReport is invoked exactly once: never twice, and once when
\* every event has been handled.
C1_SynthesisExactlyOnce ==
    OnceEach =>
        /\ synthCount <= 1
        /\ (DispatchFinished /\ AllTerminalDelivered /\ AllIdle) => synthCount = 1

\* C2: in DEMO_MODE every request that reaches the voice platform carries a
\* customer number of DEMO_TO_NUMBERS.
C2_DemoRequestsInAllowList ==
    cfg.demoMode => \A q \in requests : InAllowList(q.number)

\* A shop whose own number is not in the list was dialed in DEMO_MODE with
\* strict scoping off.
C2_Witness ==
    /\ cfg.demoMode /\ ~cfg.scope
    /\ \E q \in requests : q.shop = "A" /\ q.number # "R1"

\* C3: with DEMO_MODE and SCOPE_CALLS_TO_DEMO_LIST on, enforceDemoMode
\* returns its argument when it is in DEMO_TO_NUMBERS and throws otherwise.
C3_StrictGateReturnsOrThrows ==
    (cfg.demoMode /\ cfg.scope /\ gateIn # Undef) =>
        gateOut = (IF InAllowList(gateIn) THEN gateIn ELSE Blocked)

\* The strict gate has rejected a number that is not in the list.
C3_Witness ==
    cfg.demoMode /\ cfg.scope /\ gateIn = "R1" /\ gateOut = Blocked

\* C4: a call.started processed after a terminal event of the same call,
\* with the item COMPLETED or FAILED, leaves the item COMPLETED or FAILED.
C4_StartedKeepsTerminal ==
    [][\A s \in ShopIds :
          ( /\ TerminalDeliveries(s) >= 1
            /\ IsTerminal(calls[s])
            /\ delivered'[<<s, "call.started">>] =
                   delivered[<<s, "call.started">>] + 1 )
          => IsTerminal(calls'[s])]_vars

\* C5: a call.ended is delivered after dispatch and processed; when the same
\* event is then delivered again and processed, the call items and the
\* session's status and report are afterwards what they were after the first
\* processing (dup holds them; nothing else ran in between).
C5_DuplicateEndedChangesNothing ==
    dup.phase = "finished" =>
        (Stored.session = dup.session /\ Stored.calls = dup.calls)

\* C6: a handler of a terminal event that was delivered before, arriving
\* after generateFinalReport has been invoked, does not invoke it again
\* (toDone and toFailed are the positions after its own invocation).
C6_RedeliveryDoesNotResynthesize ==
    \A x \in Handlers : x.late => x.pc \notin {"toDone", "toFailed"}

AllowedTransitions ==
    { <<"CREATED", "ANALYZING">>, <<"ANALYZING", "CALLING">>,
      <<"CALLING", "SUMMARIZING">>, <<"SUMMARIZING", "DONE">>,
      <<"ANALYZING", "FAILED">>, <<"CALLING", "FAILED">>,
      <<"SUMMARIZING", "FAILED">> }

\* C7: every change of the session's status is one of the forward
\* transitions of the state machine.
C7_StatusMovesForward ==
    [][session'.status # session.status =>
          <<session.status, session'.status>> \in AllowedTransitions]_vars

\* C8: while the session is SUMMARIZING or DONE every call item of the
\* session is COMPLETED or FAILED.
C8_SummarizingImpliesAllTerminal ==
    session.status \in {"SUMMARIZING", "DONE"} =>
        \A s \in GetBySession(calls) : IsTerminal(calls[s])

\* A shop of the loop was attempted by run r: its item exists, and a call
\* was requested for it unless the gate rejects its number.
Attempted(r, shop) ==
    /\ Exists(calls[shop.id])
    /\ \/ \E q \in requests : q.run = r /\ q.shop = shop.id
       \/ enforceDemoMode(cfg, shop.phone) = {Blocked}

\* C9: the step that handles a failed call creation sets that shop's item to
\* FAILED with the reason, changes no other item and not the session, and
\* goes on with the loop; the loop never reaches the workflow's outer catch,
\* and when it ends every shop has had its attempt.
C9_DispatchFaultIsolation ==
    /\ [][\A r \in Runs :
            (wf[r].pc = "shopCatch" /\ wf[r].err = VapiErrorMessage /\ wf'[r] # wf[r]) =>
                LET s == wf[r].shops[wf[r].i].id IN
                /\ calls'[s].status = "FAILED"
                /\ calls'[s].ended_reason = VapiErrorMessage
                /\ \A o \in ShopIds \ {s} : calls'[o] = calls[o]
                /\ session' = session
                /\ wf'[r].pc \in {"gate", "done"}
                /\ wf'[r].i = wf[r].i + 1]_vars
    /\ [](\A r \in Runs :
            /\ wf[r].pc \in {"catch", "failed"} => wf[r].i = 0
            /\ (wf[r].pc = "done" /\ areCallsAllowed(cfg)) =>
                  \A k \in 1..Len(wf[r].shops) : Attempted(r, wf[r].shops[k]))

\* The call creation for A failed, B was dialed after it, and the loop ended
\* with the session still CALLING.
C9_Witness ==
    /\ wf[1].pc = "done"
    /\ calls["A"].status = "FAILED" /\ calls["A"].ended_reason = VapiErrorMessage
    /\ calls["B"].status = "IN_PROGRESS"
    /\ session.status = "CALLING"

\* C10: a call is requested from the voice platform only for a (session,
\* shop) whose call item is stored.
C10_RecordBeforeDial ==
    \A q \in requests : Exists(calls[q.shop])

\* A request has been sent while the item created before it is still PENDING.
C10_Witness ==
    \E q \in requests : calls[q.shop].status = "PENDING"

\* C11: the session's report is stored only while its status is DONE.
C11_ReportOnlyWhenDone ==
    session.report.set => session.status = "DONE"

\* C14: with ALLOW_OUTBOUND_CALLS off and a successful damage analysis, the
\* workflow has ended only with the session DONE and a stored report that
\* has no quotes.
C14_CallsDisabledEndsWithEmptyReport ==
    \A r \in Runs :
        (~areCallsAllowed(cfg) /\ wf[r].pc = "done") =>
            /\ session.status = "DONE"
            /\ session.report.set
            /\ session.report.quotes = {}


\* C12: when the dispatch loop has ended and no call was placed, the session
\* eventually has a terminal status.
C12_ZeroPlacedReachesTerminal ==
    ((\E r \in Runs : wf[r].pc = "done") /\ placed = {})
        ~> (session.status \in {"DONE", "FAILED"})

\* C13: with ALLOW_OUTBOUND_CALLS off no request reaches the voice platform
\* and no call item exists, whether the workflow or initiateCallsTool ran.
C13_CallsDisabledNoDispatch ==
    ~cfg.allowCalls => (requests = {} /\ GetBySession(calls) = {})

\* With calls disabled the workflow has run to its end and the tool has
\* been invoked and has thrown.
C13_Witness ==
    /\ ~cfg.allowCalls
    /\ wf[1].pc = "done" /\ session.status = "DONE"
    /\ wf[2].pc = "threw"

\* C15: a start on a session that is not CREATED, by the route or by
\* runQuoteSessionWorkflow itself, is rejected by a step that leaves the
\* session, the call items and the requests as they are, and a rejected
\* start does nothing afterwards.
C15_StartOnStartedSessionRejected ==
    /\ [][\A r \in Starts :
            ( /\ session.status # "CREATED"
              /\ \/ wf[r].pc = "idle" /\ wf'[r].pc \notin {"idle", "start"}
                 \/ wf[r].pc = "start" /\ wf'[r].pc # "start" )
            => /\ wf'[r].pc = "rejected"
               /\ session' = session
               /\ calls' = calls
               /\ requests' = requests]_vars
    /\ [][\A r \in Starts : wf[r].pc = "rejected" => wf'[r] = wf[r]]_vars

\* A second start was rejected while the first run was calling shops.
C15_Witness ==
    \E r \in Starts :
        wf[r].pc = "rejected" /\ session.status = "CALLING" /\ requests # {}

\* A run performs dispatch once it is in the loop over the shops.
Dispatching(w) == w.i >= 1

\* C16: of the starts of one session at most one performs dispatch, and a
\* shop receives at most one call request.
C16_AtMostOneRunDispatches ==
    /\ \A r1, r2 \in Starts :
          (Dispatching(wf[r1]) /\ Dispatching(wf[r2])) => r1 = r2
    /\ \A q1, q2 \in requests : q1.shop = q2.shop => q1 = q2

C19_ReportRouteOnlyWhenDone ==
    resp.route = "report" =>
        /\ resp.report # NoReport => (resp.seen = "DONE" /\ resp.code = 200)
        /\ resp.seen # "DONE" => (resp.code >= 400 /\ resp.report = NoReport)

\* The owner asked for the report of a FAILED session that still stores an
\* earlier report, and got the 400 answer.
C19_Witness ==
    /\ resp.route = "report" /\ resp.user = "owner"
    /\ resp.seen = "FAILED" /\ resp.code = 400
    /\ session.status = "FAILED" /\ session.report.set

\* C20: no read route answers with report data for a session that was FAILED.
C20_FailedSessionExposesNoReport ==
    (resp.route \in {"report", "session"} /\ resp.seen = "FAILED") =>
        resp.report = NoReport

\* What the hard requirements ask of a configuration.
Compliant(config) ==
    /\ config.voice = "11labs"
    /\ config.provider = "anthropic"
    /\ config.model = "claude-opus-4-5-20251101"
    /\ config.thinking = "enabled"
    /\ config.budgetIsNumber /\ config.budgetTokens > 0

\* C18: every request that reached the voice platform carries a compliant
\* assistant configuration, and createCall with a configuration that is not
\* compliant throws a SpecViolationError without sending.
C18_OnlyCompliantConfigsAreSent ==
    /\ \A q \in requests : Compliant(q.config)
    /\ (resp.route = "createCall" /\ ~Compliant(resp.config)) =>
          /\ resp.number = Undef
          /\ resp.error = validateAssistantConfig(resp.config)
          /\ resp.error # Undef

\* createCall has rejected a configuration whose budgetTokens is 0 after a
\* compliant one was sent.
C18_Witness ==
    /\ resp.route = "createCall"
    /\ resp.config = [buildAssistantConfig EXCEPT !.budgetTokens = 0]
    /\ resp.number = Undef
    /\ requests # {}

\* C21: a webhook POST whose x-vapi-signature header is not the HMAC of its
\* body under the shared secret is answered 401 and changes no call item and
\* nothing of the session item.
C21_BadSignatureRejected ==
    [][forged' = forged + 1 =>
          /\ resp' = InvalidSignatureResponse
          /\ calls' = calls
          /\ session' = session]_vars

\* C22: when dispatch has finished and one terminal event per placed call is
\* processed, one request at a time and in any order, the session stays
\* CALLING while a call still lacks its event, it enters SUMMARIZING from
\* CALLING during the request of the last event and not before, and when the
\* last request has returned synthesis has run exactly once.
C22_SummarizingOnceOnLastEvent ==
    /\ []((DispatchFinished /\ \E p \in placed : TerminalDeliveries(p.shop) = 0)
            => session.status = "CALLING")
    /\ [][(placed # {} /\ session'.status = "SUMMARIZING"
                       /\ session.status # "SUMMARIZING") =>
            /\ session.status = "CALLING"
            /\ AllTerminalDelivered
            /\ ~AllIdle
            /\ synthCount = 0]_vars
    /\ []((DispatchFinished /\ AllTerminalDelivered /\ AllIdle)
            => (synthCount = 1 /\ session.status \in {"DONE", "FAILED"}))

C22_Witness ==
    /\ Cardinality(placed) = 2
    /\ AllTerminalDelivered
    /\ AllIdle
    /\ synthCount = 1
    /\ session.status = "DONE"

\* C23: when a terminal event of a call has been processed after createCall
\* returned and before the dispatcher's own update to IN_PROGRESS, that
\* update leaves the call item COMPLETED or FAILED.
C23_InProgressKeepsTerminal ==
    [][\A r \in Runs :
          (/\ wf[r].pc = "markInProgress"
           /\ wf'[r] # wf[r]
           /\ IsTerminal(calls[wf[r].shops[wf[r].i].id]))
          => IsTerminal(calls'[wf[r].shops[wf[r].i].id])]_vars

\* C24: once a call item is COMPLETED or FAILED through a terminal event, a
\* later terminal event of the same call, whatever it carries, changes
\* neither the item's status nor any other field of it.
C24_LaterTerminalEventChangesNothing ==
    [][\A s \in ShopIds :
          (/\ IsTerminal(calls[s])
           /\ TerminalDeliveries(s) >= 1
           /\ \E ty \in TerminalEvents :
                 delivered'[<<s, ty>>] = delivered[<<s, ty>>] + 1)
          => calls'[s] = calls[s]]_vars

\* C25: under every configuration, the to_number stored for a call is the
\* customer number of the request sent to the platform for it.
C25_StoredNumberIsDialedNumber ==
    \A q \in requests : calls[q.shop].to_number = q.number

\* C26: checkSessionCompletion writes the session's status only when that
\* status is CALLING: the request of a terminal event that finds the session
\* in another status writes no SUMMARIZING and starts no synthesis.
C26_CompletionOnlyFromCalling ==
    [][\A x \in Handlers :
          (x.pc = "toSummarizing" /\ hd' = Moved(x, [x EXCEPT !.pc = "report"]))
          => session.status = "CALLING"]_vars

\* C27: once dispatch has finished and a terminal event has been delivered
\* for every placed call, in any order and with call.started or duplicates
\* among them, the session eventually is DONE, or FAILED when synthesis threw.
C27_AllTerminalEventsLeadToDone ==
    (/\ DispatchFinished
     /\ ~early
     /\ placed # {}
     /\ \A p \in placed : TerminalDeliveries(p.shop) >= 1)
        ~> (session.status \in {"DONE", "FAILED"})

\* C28: under DEMO_MODE with strict scoping, for a shop whose number is not
\* in the allow-list no call is ever requested from the platform; once the
\* loop has passed the shop its item is FAILED with the DEMO_MODE violation
\* message that names the rejected number; and when the loop has ended every
\* other shop has had its attempt.
C28_StrictScopingFailsShopAndContinues ==
    \A r \in Runs : \A k \in 1..Len(wf[r].shops) :
       LET shop == wf[r].shops[k] IN
       (cfg.demoMode /\ cfg.scope /\ ~InAllowList(shop.phone)) =>
          /\ \A q \in requests : q.shop # shop.id
          /\ wf[r].i > k =>
                /\ calls[shop.id].status = "FAILED"
                /\ calls[shop.id].ended_reason = DemoViolationMessage(shop.phone)
          /\ (wf[r].pc = "done" /\ areCallsAllowed(cfg)) =>
                \A j \in 1..Len(wf[r].shops) \ {k} :
                   Attempted(r, wf[r].shops[j])

\* Shop A was rejected by the gate and shop B dialed after it.
C28_Witness ==
    /\ cfg.demoMode /\ cfg.scope
    /\ wf[1].pc = "done"
    /\ calls["A"].status = "FAILED"
    /\ calls["A"].ended_reason = DemoViolationMessage("R1")
    /\ \E q \in requests : q.shop = "B"
    /\ \A q \in requests : q.shop # "A"

\* C29: when the dispatcher reaches a shop whose call item already exists,
\* the creation fails, this attempt requests no call, and the handling of
\* the failure overwrites no field of the existing item.
C29_ExistingRecordUntouched ==
    [][\A r \in Starts :
          LET shop == wf[r].shops[wf[r].i] IN
          /\ (wf[r].pc = "gate" /\ wf'[r] # wf[r] /\ Exists(calls[shop.id])) =>
                (wf'[r].pc = "shopCatch" /\ calls' = calls /\ requests' = requests)
          /\ (/\ wf[r].pc = "shopCatch"
              /\ wf[r].err = "Call already exists for session, shop " \o shop.id
              /\ wf'[r] # wf[r]) =>
                (calls' = calls /\ requests' = requests)]_vars

\* C30: when synthesis throws after the session was set to SUMMARIZING, the
\* throwing step stores no report, and the next step of that request, the
\* catch of checkSessionCompletion with which the request returns, sets the
\* session FAILED and stores no report either.
C30_SynthesisFailureSetsFailed ==
    [][\A x \in Handlers :
          /\ (x.pc = "report"
              /\ hd' = Moved(x, [x EXCEPT !.pc = "toFailed", !.engine = TRUE])) =>
                session' = session
          /\ (x.pc = "toFailed" /\ hd' = Returned(x)) =>
                /\ session'.status = "FAILED"
                /\ session'.report = session.report]_vars

\* Synthesis ran once and threw: the session is FAILED without a report.
C30_Witness ==
    /\ synthCount = 1
    /\ AllIdle
    /\ session.status = "FAILED"
    /\ ~session.report.set

\* C31: when the damage-analysis engine has failed, the run has stored no
\* call item and requested no call, and once its catch has run the session
\* is FAILED.
C31_AnalysisFailureFailsSession ==
    \A r \in Runs :
       /\ (wf[r].pc \in {"catch", "failed"} /\ wf[r].i = 0) =>
             (GetBySession(calls) = {} /\ requests = {})
       /\ wf[r].pc = "failed" => session.status = "FAILED"
       /\ (session.damage_summary = Undef /\ wf[r].pc # "rejected") =>
             (GetBySession(calls) = {} /\ requests = {}
              /\ session.status \in {"CREATED", "ANALYZING", "FAILED"})

\* The engine failed and the catch has run.
C31_Witness ==
    /\ wf[1].pc = "failed"
    /\ session.status = "FAILED"
    /\ session.damage_summary = Undef
    /\ GetBySession(calls) = {}

\* C32: a request that found every call terminal and none COMPLETED stores
\* the report with the empty quotes list without asking the engine, and goes
\* on to set the session DONE: it cannot end in the catch.
C32_NoCompletedCallGivesEmptyReport ==
    [][\A x \in Handlers :
          /\ (/\ x.pc = "report" /\ x.done = {}
              /\ \E p \in {"toDone", "toFailed"}, e \in BOOLEAN :
                    hd' = Moved(x, [x EXCEPT !.pc = p, !.engine = e])) =>
                /\ hd' = Moved(x, [x EXCEPT !.pc = "toDone"])
                /\ session'.report = [set |-> TRUE, quotes |-> {}]
          /\ (x.pc = "toDone" /\ hd' = Returned(x)) => session'.status = "DONE"]_vars

\* The only call failed: the empty report is stored and the session DONE.
C32_Witness ==
    /\ AllIdle
    /\ synthCount = 1
    /\ \A s \in GetBySession(calls) : calls[s].status = "FAILED"
    /\ session.report = [set |-> TRUE, quotes |-> {}]
    /\ session.status = "DONE"

\* C33: whenever the session is CALLING, SUMMARIZING or DONE its
\* damage_summary is set.
C33_SummaryBeforeCalling ==
    session.status \in {"CALLING", "SUMMARIZING", "DONE"} =>
        session.damage_summary # Undef

\* C40: every call item is stored under the session and a shop of its shops
\* list: an event that names another session or another shop stores none.
C40_NoCallItemUnderUnknownKey ==
    \A k \in StrayKeys : ~Exists(stray.items[k])

\* C37: enforceDemoMode returns its argument when DEMO_MODE is off or the
\* argument is in DEMO_TO_NUMBERS; with DEMO_MODE on, strict scoping off and
\* the strategy first it returns the first entry of DEMO_TO_NUMBERS for an
\* argument that is not in the list.
C37_GateReturnsArgumentOrFirst ==
    gateIn # Undef =>
        /\ (~cfg.demoMode \/ \E k \in 1..Len(DemoNumbers) : DemoNumbers[k] = gateIn)
              => gateOut = gateIn
        /\ (/\ cfg.demoMode /\ ~cfg.scope /\ cfg.strategy = "first"
            /\ \A k \in 1..Len(DemoNumbers) : DemoNumbers[k] # gateIn)
              => gateOut = DemoNumbers[1]

\* A number outside the list was replaced by the first entry.
C37_Witness ==
    /\ cfg.demoMode /\ ~cfg.scope /\ cfg.strategy = "first"
    /\ gateIn = "R2" /\ gateOut = "X"

\* C38: no outbound call is requested for a session whose status is already
\* SUMMARIZING, DONE or FAILED: the dispatcher never dials a shop after the
\* session has left CALLING.
C38_NoDialAfterCalling ==
    [][requests' # requests =>
         session.status \notin {"SUMMARIZING", "DONE", "FAILED"}]_vars

\* C36: no operation after session creation (start, damage analysis,
\* dispatch, webhook handling, image upload, image-prompt callback, report
\* synthesis) changes the session's shops list, and the list the dispatcher
\* read is the list stored at creation.
C36_ShopsNeverChange ==
    /\ session.shops = ShopList
    /\ \A r \in Runs : wf[r].shops # <<>> => wf[r].shops = ShopList

\* An image was uploaded, the callback stored its prompt, the dispatcher read
\* the shops and a webhook handler synthesized the report.
C36_Witness ==
    /\ session.image_keys > 0
    /\ session.image_prompt # Undef
    /\ session.status = "DONE"
    /\ session.report.set
    /\ \E r \in Runs : wf[r].shops = ShopList
    /\ placed # {}

\* The workflow has written CALLING, or its analysis phase threw.
CallingOrAnalysisFailed ==
    \/ session.status = "CALLING"
    \/ \E r \in Runs : wf[r].pc \in {"catch", "failed"}

\* C34: for a session with uploaded images and no image prompt, once the
\* image task has been submitted the workflow goes on to the damage analysis
\* and, when the analysis returns, to CALLING without waiting for the
\* callback, which may never be delivered; an analysis that throws ends the
\* run as C31 says.
C34_WorkflowDoesNotWaitForImagePrompt ==
    (cb.task /\ cb.pc = "idle" /\ session.status = "ANALYZING")
        ~> CallingOrAnalysisFailed

\* The session is CALLING and no callback was ever posted.
C34_Witness ==
    /\ cb.task
    /\ cb.pc = "idle"
    /\ session.status = "CALLING"
    /\ session.image_prompt = Undef
    /\ session.damage_summary = "summary"

\* C35: resumeAfterImagePrompt for a session whose status is not ANALYZING
\* returns at once: it does not invoke the damage-analysis engine and
\* changes neither the session's status nor its damage_summary.
C35_ResumeOnlyWhileAnalyzing ==
    [][ /\ (cb.pc = "resume" /\ cb' # cb /\ session.status # "ANALYZING")
            => /\ cb'.pc = "done"
               /\ session'.status = session.status
               /\ session'.damage_summary = session.damage_summary
        /\ (cb.pc = "done" /\ cb.read # "ANALYZING") => cb' = cb ]_vars

\* The callback found the session CALLING and returned.
C35_Witness ==
    /\ cb.pc = "done"
    /\ cb.read = "CALLING"
    /\ session.image_prompt = "prompt"
    /\ session.damage_summary = "summary"

\* C39: once a session's status is CALLING or later, its damage_summary is
\* never written again.
C39_SummaryFixedAfterCalling ==
    [][session.status \in {"CALLING", "SUMMARIZING", "DONE"}
         => session'.damage_summary = session.damage_summary]_vars
====
